---- MODULE Spec2Model ----
(***************************************************************************)
(* A model of the Termux Bridge Python client (termux-client/bridge.py)    *)
(* and of its stand-in server (termux-client/mock_server.py).              *)
(*                                                                         *)
(* One client, one thread of control.  A public operation is called from   *)
(* "idle"; the thin wrappers perform their single exchange in one step,    *)
(* the loops (wait_for_element, scroll_to_text) advance one statement at a *)
(* time.  The network and the remote side are the environment: every       *)
(* exchange draws its behaviour (unreachable, damaged body, the mock       *)
(* dispatcher, or some other dispatcher's answer) from a small set.        *)
(*                                                                         *)
(* Python values: a dict is a function on its keys; None is the record     *)
(* None; an Optional[str] argument is <<>> (None) or <<s>>; an f-string is *)
(* kept as its literal parts (code points) and its interpolated values.    *)
(***************************************************************************)
EXTENDS Integers, Sequences, FiniteSets, TLC

VARIABLES pc, call, outcome, trace, prims, now, start_time, iter,
          _default_bridge, instances, bridge_calls

\* the module global _default_bridge, the TermuxBridge objects constructed so far,
\* and the get_bridge calls made so far with what each returned
globals == <<_default_bridge, instances, bridge_calls>>

vars == <<pc, call, outcome, trace, prims, now, start_time, iter, globals>>

(***************************************************************************)
(* Bounds of the model.                                                    *)
(***************************************************************************)
\* nodes of a dumped UI tree
MaxNodes == 4
\* largest max_swipes given to scroll_to_text
MaxSwipes == 2
\* largest timeout (clock ticks) given to wait_for_element
MaxTimeout == 3
\* largest interval (clock ticks) given to wait_for_element
MaxInterval == 2
\* longest round trip of one exchange (clock ticks)
MaxRtt == 2
\* get_bridge calls made in one process
MaxCalls == 3

(***************************************************************************)
(* Python values.                                                          *)
(***************************************************************************)
None == [none |-> TRUE]

EmptyMap == <<>>

Get(m, k, d) == IF k \in DOMAIN m THEN m[k] ELSE d

\* bool(m.get(k)) for a key whose value, when present, is a JSON boolean
Truthy(m, k) == k \in DOMAIN m /\ m[k] = TRUE

\* bool(s) for an Optional[str]
StrGiven(s) == s # <<>> /\ s[1] # ""

\* f"{parts[1]}{args[1]}{parts[2]}..."
FString(parts, args) == [parts |-> parts, args |-> args]

Return(v) == [kind |-> "return", value |-> v]

Raise(exc, cause) == [kind |-> "raise", exc |-> exc, cause |-> cause]

NoOutcome == [kind |-> "none"]

(***************************************************************************)
(* JSON text of an object: its members, a set of <<key, value>> pairs.     *)
(***************************************************************************)
JsonDumps(m) == {<<k, m[k]>> : k \in DOMAIN m}

RECURSIVE JsonLoads(_)

\* (when a key is repeated, one member wins; the encoder above never repeats one)
JsonLoads(s) ==
  IF s = {} THEN EmptyMap
  ELSE LET p == CHOOSE q \in s : TRUE
       IN (p[1] :> p[2]) @@ JsonLoads(s \ {p})

(***************************************************************************)
(* mock_server.py                                                          *)
(***************************************************************************)
\* {params.get('text') or params.get('resourceId')} as an f-string renders it
TextOrResourceId(params) ==
  IF "text" \in DOMAIN params /\ params["text"] # ""
    THEN params["text"]
    ELSE Get(params, "resourceId", "None")

MockDumpData ==
  [className |-> "android.widget.FrameLayout",
   children |-> << [className |-> "android.widget.LinearLayout",
                    text |-> <<27979, 35797, 20803, 32032>>,
                    clickable |-> TRUE] >>]

MockUnknownPrefix == <<26410, 30693, 21629, 20196, 58, 32>>

MockResponses(params) ==
  [tap |-> [success |-> TRUE,
            message |-> FString(<< <<24050, 28857, 20987, 22352, 26631, 32, 40>>, <<44, 32>>, <<41>> >>,
                                <<Get(params, "x", None), Get(params, "y", None)>>)],
   swipe |-> [success |-> TRUE,
              message |-> FString(<< <<24050, 28369, 21160, 32, 40>>, <<44, 32>>,
                                     <<41, 32, 8594, 32, 40>>, <<44, 32>>, <<41>> >>,
                                  <<Get(params, "startX", None), Get(params, "startY", None),
                                    Get(params, "endX", None), Get(params, "endY", None)>>)],
   long_press |-> [success |-> TRUE,
                   message |-> FString(<< <<24050, 38271, 25353, 32, 40>>, <<44, 32>>, <<41>> >>,
                                       <<Get(params, "x", None), Get(params, "y", None)>>)],
   tap_element |-> [success |-> TRUE,
                    message |-> FString(<< <<24050, 28857, 20987, 20803, 32032, 58, 32>>, <<>> >>,
                                        <<TextOrResourceId(params)>>)],
   input_text |-> [success |-> TRUE,
                   message |-> FString(<< <<24050, 36755, 20837, 25991, 26412, 58, 32>>, <<>> >>,
                                       <<Get(params, "text", None)>>)],
   back |-> [success |-> TRUE,
             message |-> FString(<< <<24050, 25191, 34892, 36820, 22238, 25805, 20316>> >>, <<>>)],
   home |-> [success |-> TRUE,
             message |-> FString(<< <<24050, 25191, 34892, 72, 111, 109, 101, 25805, 20316>> >>, <<>>)],
   recent |-> [success |-> TRUE,
               message |-> FString(<< <<24050, 25171, 24320, 26368, 36817, 20219, 21153>> >>, <<>>)],
   notifications |-> [success |-> TRUE,
                      message |-> FString(<< <<24050, 25171, 24320, 36890, 30693, 26639>> >>, <<>>)],
   quick_settings |-> [success |-> TRUE,
                       message |-> FString(<< <<24050, 25171, 24320, 24555, 36895, 35774, 32622>> >>, <<>>)],
   find_element |-> [success |-> TRUE,
                     message |-> FString(<< <<25214, 21040, 20803, 32032, 58, 32>>, <<>> >>,
                                         <<TextOrResourceId(params)>>),
                     data |-> << [text |-> Get(params, "text", ""),
                                  bounds |-> [centerX |-> 540, centerY |-> 960]] >>],
   dump |-> [success |-> TRUE,
             message |-> FString(<< <<24050, 33719, 21462, 30028, 38754, 32467, 26500>> >>, <<>>),
             data |-> MockDumpData]]

\* (a slip: the fallback does not name the action)
mock_execute_anonymous(action, params) ==
  Get(MockResponses(params), action,
      [success |-> FALSE, error |-> FString(<<MockUnknownPrefix>>, <<>>)])

\* responses.get(action, {"success": False, "error": f"未知命令: {action}"})
mock_execute(action, params) ==
  Get(MockResponses(params), action,
      [success |-> FALSE, error |-> FString(<<MockUnknownPrefix, <<>> >>, <<action>>)])

send_json(status, data) ==
  [status |-> status, utf8 |-> TRUE, json |-> TRUE, members |-> JsonDumps(data)]

do_GET(req) ==
  IF req.path = "/ping"
    THEN send_json(200, [status |-> "ok", service |-> "TermuxBridge Mock",
                         version |-> "1.0.0-mock"])
  ELSE IF req.path = "/status"
    THEN send_json(200, [status |-> "ready", http_server |-> "running",
                         accessibility_service |-> TRUE, port |-> 8080])
  ELSE send_json(404, [error |-> "Not Found"])

\* the client's json.dumps always yields well-formed JSON, so the 400 branch
\* needs a request from elsewhere (req.wellformed = FALSE)
do_POST(req) ==
  IF req.path = "/cmd"
    THEN IF req.wellformed
           THEN LET command == JsonLoads(req.body)
                    action == Get(command, "action", "")
                    params == Get(command, "params", EmptyMap)
                IN send_json(200, mock_execute(action, params))
           ELSE send_json(400, [success |-> FALSE, error |-> "Invalid JSON"])
    ELSE send_json(404, [error |-> "Not Found"])

MockServer(req) == IF req.method = "POST" THEN do_POST(req) ELSE do_GET(req)

(***************************************************************************)
(* The environment of one exchange: the endpoint is unreachable, or a      *)
(* server answers (the mock, or another dispatcher with the answer given)  *)
(* and the body arrives intact, not UTF-8, or not JSON.                    *)
(***************************************************************************)
OtherAnswers ==
  { [success |-> TRUE, message |-> FString(<< <<111, 107>> >>, <<>>),
     data |-> << [text |-> "OK"] >>],
    [success |-> FALSE, error |-> FString(<< <<110, 111>> >>, <<>>)],
    [message |-> FString(<< <<98, 117, 115, 121>> >>, <<>>)],
    [status |-> "starting"] }

Servers == {[kind |-> "mock"]} \cup {[kind |-> "other", answer |-> a] : a \in OtherAnswers}

Damages == {"none", "utf8", "json"}

EnvsOf(servers) ==
  {[reach |-> FALSE]}
    \cup {[reach |-> TRUE, server |-> s, damage |-> d] : s \in servers, d \in Damages}

Envs == EnvsOf(Servers)

\* urllib.request.urlopen(req, timeout=self.timeout): URLError when the endpoint
\* cannot be reached and (HTTPError, a URLError) when the status is an error
urlopen(req, env) ==
  IF ~env.reach THEN [kind |-> "URLError"]
  ELSE LET resp == IF env.server.kind = "mock"
                     THEN MockServer(req)
                     ELSE send_json(200, env.server.answer)
       IN IF resp.status >= 400
            THEN [kind |-> "URLError"]
            ELSE [kind |-> "response",
                  utf8 |-> resp.utf8 /\ env.damage # "utf8",
                  json |-> resp.json /\ env.damage # "json",
                  members |-> resp.members]

(***************************************************************************)
(* bridge.py: transport and command envelope.  An operation yields its     *)
(* outcome and the exchanges it performed.                                 *)
(***************************************************************************)
\* what the call log keeps of one exchange: the request, the environment it met
\* and what urlopen and read() gave back
Exchange(req, env, got) == [ev |-> "exchange", req |-> req, env |-> env, got |-> got]

Sleep(d) == [ev |-> "sleep", d |-> d]

BuildRequest(path, data) ==
  IF data # <<>> /\ DOMAIN data[1] # {}
    THEN [method |-> "POST", path |-> path, wellformed |-> TRUE,
          body |-> JsonDumps(data[1])]
    ELSE [method |-> "GET", path |-> path, wellformed |-> TRUE, body |-> {}]

\* (a slip: every failure answered with an empty mapping instead of raised)
Decode_swallow(got) ==
  IF got.kind = "URLError" \/ ~got.utf8 \/ ~got.json
    THEN Return(EmptyMap)
    ELSE Return(JsonLoads(got.members))

\* (a slip: success:false raised as an error instead of returned)
Decode_raising(got) ==
  IF got.kind = "URLError" THEN Raise("BridgeError", "URLError")
  ELSE IF ~got.utf8 THEN Raise("UnicodeDecodeError", "UnicodeDecodeError")
  ELSE IF ~got.json THEN Raise("BridgeError", "JSONDecodeError")
  ELSE IF <<"success", FALSE>> \in got.members THEN Raise("BridgeError", "success:false")
  ELSE Return(JsonLoads(got.members))

\* response.read().decode('utf-8'), json.loads, and the two except clauses
Decode(got) ==
  IF got.kind = "URLError" THEN Raise("BridgeError", "URLError")
  ELSE IF ~got.utf8 THEN Raise("UnicodeDecodeError", "UnicodeDecodeError")
  ELSE IF ~got.json THEN Raise("BridgeError", "JSONDecodeError")
  ELSE Return(JsonLoads(got.members))

\* (a slip: an unreachable endpoint is tried a second time)
_request_retrying(path, data, env) ==
  LET req == BuildRequest(path, data)
      got == urlopen(req, env)
  IN IF got.kind = "URLError"
       THEN [out |-> Decode(got), log |-> <<Exchange(req, env, got), Exchange(req, env, got)>>]
       ELSE [out |-> Decode(got), log |-> <<Exchange(req, env, got)>>]

_request(path, data, env) ==
  LET req == BuildRequest(path, data)
      got == urlopen(req, env)
  IN [out |-> Decode(got), log |-> <<Exchange(req, env, got)>>]

\* params is <<>> for None, <<m>> for a dict m
_send_command(action, params, env) ==
  LET payload == [action |-> action,
                  params |-> IF params = <<>> \/ DOMAIN params[1] = {}
                               THEN EmptyMap ELSE params[1]]
  IN _request("/cmd", <<payload>>, env)

ping(env) == _request("/ping", <<>>, env)

status(env) == _request("/status", <<>>, env)

\* (a slip: a bare "except:" instead of "except BridgeError:")
is_ready_bare_except(env) ==
  LET r == _request("/status", <<>>, env)
  IN IF r.out.kind = "raise"
       THEN [out |-> Return(FALSE), log |-> r.log]
       ELSE [out |-> Return("status" \in DOMAIN r.out.value
                              /\ r.out.value["status"] = "ready"),
             log |-> r.log]

is_ready(env) ==
  LET r == status(env)
  IN IF r.out.kind = "raise" /\ r.out.exc = "BridgeError"
       THEN [out |-> Return(FALSE), log |-> r.log]
     ELSE IF r.out.kind = "raise" THEN r
     ELSE [out |-> Return("status" \in DOMAIN r.out.value
                            /\ r.out.value["status"] = "ready"),
           log |-> r.log]

tap(x, y, env) == _send_command("tap", <<[x |-> x, y |-> y]>>, env)

\* (a slip: "if value is not None:" for "if value:")
WithKey_present(params, key, value) ==
  IF value # <<>> THEN (key :> value[1]) @@ params ELSE params

\* the optional match criteria: a key is set only under "if <value>:"
WithKey(params, key, value) ==
  IF StrGiven(value) THEN (key :> value[1]) @@ params ELSE params

tap_element(text, resource_id, desc, class_name, index, env) ==
  LET params == WithKey(WithKey(WithKey(WithKey([index |-> index],
                  "text", text), "resourceId", resource_id), "desc", desc),
                  "className", class_name)
  IN _send_command("tap_element", <<params>>, env)

swipe(start_x, start_y, end_x, end_y, duration, env) ==
  _send_command("swipe", <<[startX |-> start_x, startY |-> start_y,
                            endX |-> end_x, endY |-> end_y,
                            duration |-> duration]>>, env)

swipe_up(duration, env) == swipe(540, 1500, 540, 500, duration, env)

\* (a slip: swipe_down copied from swipe_up with the coordinates left as they were)
swipe_down_as_up(duration, env) == swipe(540, 1500, 540, 500, duration, env)

swipe_down(duration, env) == swipe(540, 500, 540, 1500, duration, env)

swipe_left(duration, env) == swipe(900, 960, 180, 960, duration, env)

swipe_right(duration, env) == swipe(180, 960, 900, 960, duration, env)

long_press(x, y, duration, env) ==
  _send_command("long_press", <<[x |-> x, y |-> y, duration |-> duration]>>, env)

input_text(text, env) == _send_command("input_text", <<[text |-> text]>>, env)

back(env) == _send_command("back", <<>>, env)

home(env) == _send_command("home", <<>>, env)

recent(env) == _send_command("recent", <<>>, env)

notifications(env) == _send_command("notifications", <<>>, env)

quick_settings(env) == _send_command("quick_settings", <<>>, env)

find_element(text, resource_id, desc, class_name, env) ==
  LET params == WithKey(WithKey(WithKey(WithKey(EmptyMap,
                  "text", text), "resourceId", resource_id), "desc", desc),
                  "className", class_name)
  IN _send_command("find_element", <<params>>, env)

dump_hierarchy(env) == _send_command("dump", <<>>, env)

\* (a slip: the resource id is left out of the params)
scroll_forward_text_only(text, resource_id, env) ==
  _send_command("scroll_forward", <<WithKey(EmptyMap, "text", text)>>, env)

scroll_forward(text, resource_id, env) ==
  _send_command("scroll_forward",
                <<WithKey(WithKey(EmptyMap, "text", text), "resourceId", resource_id)>>, env)

scroll_backward(text, resource_id, env) ==
  _send_command("scroll_backward",
                <<WithKey(WithKey(EmptyMap, "text", text), "resourceId", resource_id)>>, env)

start_app(package_name, env) ==
  _send_command("start_app", <<[packageName |-> package_name]>>, env)

(***************************************************************************)
(* bridge.py: the hierarchy interpreter.                                   *)
(***************************************************************************)
Projection(node) ==
  [text |-> Get(node, "text", ""),
   resourceId |-> Get(node, "resourceId", ""),
   className |-> Get(node, "className", ""),
   bounds |-> Get(node, "bounds", EmptyMap),
   clickable |-> Get(node, "clickable", FALSE),
   scrollable |-> Get(node, "scrollable", FALSE)]

RECURSIVE _extract_clickable(_, _), ExtractChildren(_, _, _)

\* (a slip: the children are visited only under an actionable node)
_extract_clickable_pruned(node, result) ==
  IF node = None \/ DOMAIN node = {}
    THEN result
    ELSE IF Truthy(node, "clickable") \/ Truthy(node, "scrollable")
      THEN ExtractChildren(Get(node, "children", <<>>), 1,
                           Append(result, Projection(node)))
      ELSE result

\* result is the list so far; the value is the list after the call
_extract_clickable(node, result) ==
  IF node = None \/ DOMAIN node = {}
    THEN result
    ELSE ExtractChildren(Get(node, "children", <<>>), 1,
                         IF Truthy(node, "clickable") \/ Truthy(node, "scrollable")
                           THEN Append(result, Projection(node))
                           ELSE result)

\* for child in node.get("children", []): self._extract_clickable(child, result)
ExtractChildren(children, i, result) ==
  IF i > Len(children)
    THEN result
    ELSE ExtractChildren(children, i + 1, _extract_clickable(children[i], result))

\* a str value of "data": the JSON text of a tree
JsonText(v) == [jsontext |-> v]

IsStr(v) == v # None /\ "jsontext" \in DOMAIN v

\* (a slip: the data is flattened whatever "success" says)
get_elements_unchecked(env) ==
  LET r == dump_hierarchy(env)
  IN IF r.out.kind = "raise" THEN r
     ELSE LET data == Get(r.out.value, "data", None)
              tree == IF IsStr(data) THEN data.jsontext ELSE data
          IN [out |-> Return(_extract_clickable(tree, <<>>)), log |-> r.log]

get_elements(env) ==
  LET r == dump_hierarchy(env)
  IN IF r.out.kind = "raise" THEN r
     ELSE IF Truthy(r.out.value, "success")
       THEN LET data == Get(r.out.value, "data", None)
                tree == IF IsStr(data) THEN data.jsontext ELSE data
            IN [out |-> Return(_extract_clickable(tree, <<>>)), log |-> r.log]
       ELSE [out |-> Return(<<>>), log |-> r.log]

(***************************************************************************)
(* The UI trees a dump may carry: every ordered tree of at most MaxNodes   *)
(* nodes, each node clickable or not and scrollable or not, its text the   *)
(* path of child positions leading to it from the root.                    *)
(***************************************************************************)
RECURSIVE TreesOfSize(_), ForestsOfSize(_), Labelled(_, _)

TreesOfSize(n) ==
  {[clickable |-> c, scrollable |-> s, children |-> f] :
     c \in BOOLEAN, s \in BOOLEAN, f \in ForestsOfSize(n - 1)}

ForestsOfSize(m) ==
  IF m = 0 THEN {<<>>}
  ELSE UNION {{<<t>> \o f : t \in TreesOfSize(k), f \in ForestsOfSize(m - k)} : k \in 1..m}

Labelled(t, path) ==
  [text |-> path, clickable |-> t.clickable, scrollable |-> t.scrollable,
   children |-> [i \in 1..Len(t.children) |-> Labelled(t.children[i], Append(path, i))]]

UiTrees == {Labelled(t, <<>>) : t \in UNION {TreesOfSize(n) : n \in 1..MaxNodes}}

SmallUiTrees == {Labelled(t, <<>>) : t \in TreesOfSize(1) \cup TreesOfSize(2)}

DumpAnswers ==
  {[success |-> ok, data |-> t] : ok \in BOOLEAN, t \in UiTrees \cup {EmptyMap, None}}
    \cup {[data |-> t] : t \in UiTrees}
    \cup {[success |-> TRUE, data |-> JsonText(t)] : t \in SmallUiTrees}
    \cup {[success |-> TRUE], [success |-> FALSE]}

\* (a dump answer carries a tree, not the match list of a find_element answer)
DumpEnvs ==
  EnvsOf({[kind |-> "mock"]})
    \cup {[reach |-> TRUE, server |-> [kind |-> "other", answer |-> a], damage |-> "none"] :
               a \in DumpAnswers}

(***************************************************************************)
(* The calls a caller may make.                                            *)
(***************************************************************************)
Coords == {0, 540}

Durations == {100, 300}

OptStrs == {<<>>, <<"">>, <<"OK">>}

Strs == {"", "OK"}

Indexes == {0, 1}

RawActions == {"fly", "", "tap"}

PrimCalls ==
  {[name |-> n] : n \in {"ping", "status", "back", "home", "recent", "notifications",
                         "quick_settings", "dump_hierarchy"}}
    \cup {[name |-> "tap", x |-> x, y |-> y] : x \in Coords, y \in Coords}
    \cup {[name |-> "swipe", start_x |-> 540, start_y |-> y1, end_x |-> 540, end_y |-> y2,
           duration |-> d] : y1 \in Coords, y2 \in Coords, d \in Durations}
    \cup {[name |-> n, duration |-> d] :
            n \in {"swipe_up", "swipe_down", "swipe_left", "swipe_right"}, d \in Durations}
    \cup {[name |-> "long_press", x |-> x, y |-> y, duration |-> 1000] :
            x \in Coords, y \in Coords}
    \cup {[name |-> "tap_element", text |-> t, resource_id |-> r, desc |-> d,
           class_name |-> c, index |-> i] :
            t \in OptStrs, r \in OptStrs, d \in OptStrs, c \in OptStrs, i \in Indexes}
    \cup {[name |-> "find_element", text |-> t, resource_id |-> r, desc |-> d,
           class_name |-> c] : t \in OptStrs, r \in OptStrs, d \in OptStrs, c \in OptStrs}
    \cup {[name |-> n, text |-> t, resource_id |-> r] :
            n \in {"scroll_forward", "scroll_backward"}, t \in OptStrs, r \in OptStrs}
    \cup {[name |-> "input_text", text |-> t] : t \in Strs}
    \cup {[name |-> "start_app", package_name |-> t] : t \in Strs}
    \cup {[name |-> "_send_command", action |-> a, params |-> ps] :
            a \in RawActions, ps \in {<<>>, <<[x |-> 0, y |-> 0]>>}}

\* the primitive operation a call comes down to
PrimitiveOf(c) ==
  IF c.name \in {"swipe_up", "swipe_down", "swipe_left", "swipe_right"} THEN "swipe"
  ELSE c.name

Invoke(c, env) ==
  CASE c.name = "ping" -> ping(env)
    [] c.name = "status" -> status(env)
    [] c.name = "tap" -> tap(c.x, c.y, env)
    [] c.name = "tap_element" ->
         tap_element(c.text, c.resource_id, c.desc, c.class_name, c.index, env)
    [] c.name = "swipe" -> swipe(c.start_x, c.start_y, c.end_x, c.end_y, c.duration, env)
    [] c.name = "swipe_up" -> swipe_up(c.duration, env)
    [] c.name = "swipe_down" -> swipe_down(c.duration, env)
    [] c.name = "swipe_left" -> swipe_left(c.duration, env)
    [] c.name = "swipe_right" -> swipe_right(c.duration, env)
    [] c.name = "long_press" -> long_press(c.x, c.y, c.duration, env)
    [] c.name = "input_text" -> input_text(c.text, env)
    [] c.name = "back" -> back(env)
    [] c.name = "home" -> home(env)
    [] c.name = "recent" -> recent(env)
    [] c.name = "notifications" -> notifications(env)
    [] c.name = "quick_settings" -> quick_settings(env)
    [] c.name = "find_element" ->
         find_element(c.text, c.resource_id, c.desc, c.class_name, env)
    [] c.name = "dump_hierarchy" -> dump_hierarchy(env)
    [] c.name = "scroll_forward" -> scroll_forward(c.text, c.resource_id, env)
    [] c.name = "scroll_backward" -> scroll_backward(c.text, c.resource_id, env)
    [] c.name = "start_app" -> start_app(c.package_name, env)
    [] c.name = "_send_command" -> _send_command(c.action, c.params, env)

(***************************************************************************)
(* bridge.py: construction and the process-wide default instance.  An      *)
(* object is known by its position among the objects constructed.          *)
(***************************************************************************)
DefaultHost == "127.0.0.1"

DefaultPort == 8080

DefaultTimeout == 10

\* TermuxBridge.__init__: base_url = f"http://{host}:{port}", timeout
TermuxBridge(host, port, timeout) ==
  [base_url |-> FString(<< <<104, 116, 116, 112, 58, 47, 47>>, <<58>>, <<>> >>,
                        <<host, port>>),
   timeout |-> timeout]

\* (a slip: the "is None" test left out, a client constructed at every call)
get_bridge_always(host, port, default, objs) ==
  [default |-> <<Len(objs) + 1>>,
   objs |-> Append(objs, TermuxBridge(host, port, DefaultTimeout)),
   ret |-> Len(objs) + 1]

\* get_bridge(host, port) with the global at default and the objects objs
get_bridge(host, port, default, objs) ==
  IF default = <<>>
    THEN [default |-> <<Len(objs) + 1>>,
          objs |-> Append(objs, TermuxBridge(host, port, DefaultTimeout)),
          ret |-> Len(objs) + 1]
    ELSE [default |-> default, objs |-> objs, ret |-> default[1]]

Hosts == {DefaultHost, "10.0.0.2"}

Ports == {DefaultPort, 9090}

NoCall == [name |-> "none"]

\* time.time() at the moment the caller turns to the client
ClockStarts == {0, 7}

Init ==
  /\ pc = "idle"
  /\ call = NoCall
  /\ outcome = NoOutcome
  /\ trace = <<>>
  /\ prims = <<>>
  /\ now \in ClockStarts
  /\ start_time = 0
  /\ iter = 0
  /\ _default_bridge = <<>>
  /\ instances = <<>>
  /\ bridge_calls = <<>>

\* a call of get_bridge(host, port)
GetBridge ==
  /\ pc = "idle"
  /\ Len(bridge_calls) < MaxCalls
  /\ \E host \in Hosts, port \in Ports :
       LET r == get_bridge(host, port, _default_bridge, instances)
       IN /\ _default_bridge' = r.default
          /\ instances' = r.objs
          /\ bridge_calls' = Append(bridge_calls,
                                    [host |-> host, port |-> port, returned |-> r.ret])
  /\ UNCHANGED <<pc, call, outcome, trace, prims, now, start_time, iter>>

\* one of the thin wrappers: a single step from call to outcome
CallPrimitive ==
  /\ pc = "idle"
  /\ \E c \in PrimCalls, env \in Envs :
    /\ LET r == Invoke(c, env)
       IN /\ outcome' = r.out
          /\ trace' = r.log
    /\ pc' = "done"
    /\ call' = c
    /\ prims' = <<PrimitiveOf(c)>>
    /\ UNCHANGED <<now, start_time, iter, globals>>

CallIsReady ==
  /\ pc = "idle"
  /\ \E env \in Envs :
    /\ LET r == is_ready(env)
       IN /\ outcome' = r.out
          /\ trace' = r.log
    /\ pc' = "done"
    /\ call' = [name |-> "is_ready"]
    /\ prims' = <<"status">>
    /\ UNCHANGED <<now, start_time, iter, globals>>

CallGetElements ==
  /\ pc = "idle"
  /\ \E env \in DumpEnvs :
    /\ LET r == get_elements(env)
       IN /\ outcome' = r.out
          /\ trace' = r.log
    /\ pc' = "done"
    /\ call' = [name |-> "get_elements"]
    /\ prims' = <<"dump_hierarchy">>
    /\ UNCHANGED <<now, start_time, iter, globals>>

(***************************************************************************)
(* bridge.py: the retry/polling controller and type_and_enter, one         *)
(* statement per step.  The clock counts ticks of 0.1 s.                   *)
(***************************************************************************)
PollEnvs ==
  EnvsOf({[kind |-> "mock"]})
    \cup {[reach |-> TRUE, server |-> [kind |-> "other", answer |-> a], damage |-> "none"] :
            a \in {b \in OtherAnswers : ~Truthy(b, "success") /\ "status" \notin DOMAIN b}}

ScrollSettle == 5

TypeSettle == 1

DefaultSwipeDuration == 300

\* (a slip: while time.time() < timeout)
wfe_guard_no_start(t, start, timeout) == t < timeout

\* (a slip: "<=" for "<" in the guard)
wfe_guard_inclusive(t, start, timeout) == t - start <= timeout

\* while time.time() - start_time < timeout
wfe_guard(t, start, timeout) == t - start < timeout

\* (a slip: "success" in result)
found_if_present(result) == "success" \in DOMAIN result

\* if result.get("success")
found(result) == Truthy(result, "success")

\* (a slip: range(max_swipes + 1))
stt_more_inclusive(done, max_swipes) == done <= max_swipes

\* for _ in range(max_swipes): iterations done so far against the budget
stt_more(done, max_swipes) == done < max_swipes

CallWaitForElement ==
  /\ pc = "idle"
  /\ \E text \in {<<>>, <<"OK">>}, timeout \in (0 - 1)..MaxTimeout, interval \in 1..MaxInterval :
       call' = [name |-> "wait_for_element", text |-> text, resource_id |-> <<>>,
                timeout |-> timeout, interval |-> interval]
  /\ start_time' = now
  /\ pc' = "wfe_guard"
  /\ UNCHANGED <<outcome, trace, prims, now, iter, globals>>

WfeGuard ==
  /\ pc = "wfe_guard"
  /\ IF wfe_guard(now, start_time, call.timeout)
       THEN pc' = "wfe_find" /\ UNCHANGED outcome
       ELSE pc' = "done" /\ outcome' = Return(FALSE)
  /\ UNCHANGED <<call, trace, prims, now, start_time, iter, globals>>

\* the exchanges of a log, each marked with the time it took
Timed(log, rtt) == [i \in DOMAIN log |-> log[i] @@ [rtt |-> rtt]]

WfeFind ==
  /\ pc = "wfe_find"
  /\ \E env \in PollEnvs, rtt \in 0..MaxRtt :
       LET r == find_element(call.text, call.resource_id, <<>>, <<>>, env)
       IN /\ trace' = trace \o Timed(r.log, rtt)
          /\ now' = now + rtt
          /\ IF r.out.kind = "raise"
               THEN pc' = "done" /\ outcome' = r.out
             ELSE IF found(r.out.value)
               THEN pc' = "done" /\ outcome' = Return(TRUE)
             ELSE pc' = "wfe_sleep" /\ UNCHANGED outcome
  /\ prims' = Append(prims, "find_element")
  /\ UNCHANGED <<call, start_time, iter, globals>>

\* (a slip: the guard is not evaluated again after the sleep)
WfeSleep_no_recheck ==
  /\ pc = "wfe_sleep"
  /\ trace' = Append(trace, Sleep(call.interval))
  /\ now' = now + call.interval
  /\ pc' = "wfe_find"
  /\ UNCHANGED <<call, outcome, prims, start_time, iter, globals>>

WfeSleep ==
  /\ pc = "wfe_sleep"
  /\ trace' = Append(trace, Sleep(call.interval))
  /\ now' = now + call.interval
  /\ pc' = "wfe_guard"
  /\ UNCHANGED <<call, outcome, prims, start_time, iter, globals>>

CallScrollToText ==
  /\ pc = "idle"
  /\ \E text \in Strs, max_swipes \in 0..MaxSwipes :
       call' = [name |-> "scroll_to_text", text |-> text, max_swipes |-> max_swipes]
  /\ iter' = 0
  /\ pc' = "stt_loop"
  /\ UNCHANGED <<outcome, trace, prims, now, start_time, globals>>

SttLoop ==
  /\ pc = "stt_loop"
  /\ IF stt_more(iter, call.max_swipes)
       THEN pc' = "stt_find" /\ UNCHANGED outcome
       ELSE pc' = "done" /\ outcome' = Return(FALSE)
  /\ UNCHANGED <<call, trace, prims, now, start_time, iter, globals>>

SttFind ==
  /\ pc = "stt_find"
  /\ \E env \in PollEnvs :
       LET r == find_element(<<call.text>>, <<>>, <<>>, <<>>, env)
       IN /\ trace' = trace \o r.log
          /\ IF r.out.kind = "raise"
               THEN pc' = "done" /\ outcome' = r.out
             ELSE IF found(r.out.value)
               THEN pc' = "done" /\ outcome' = Return(TRUE)
             ELSE pc' = "stt_swipe" /\ UNCHANGED outcome
  /\ prims' = Append(prims, "find_element")
  /\ UNCHANGED <<call, now, start_time, iter, globals>>

\* (a slip: a refused swipe is taken for the end of the content and ends the search)
SttSwipe_until_refused ==
  /\ pc = "stt_swipe"
  /\ \E env \in PollEnvs :
       LET r == swipe_up(DefaultSwipeDuration, env)
       IN /\ trace' = trace \o r.log
          /\ IF r.out.kind = "raise"
               THEN pc' = "done" /\ outcome' = r.out
             ELSE IF ~Truthy(r.out.value, "success")
               THEN pc' = "done" /\ outcome' = Return(FALSE)
             ELSE pc' = "stt_wait" /\ UNCHANGED outcome
  /\ prims' = Append(prims, "swipe")
  /\ UNCHANGED <<call, now, start_time, iter, globals>>

SttSwipe ==
  /\ pc = "stt_swipe"
  /\ \E env \in PollEnvs :
       LET r == swipe_up(DefaultSwipeDuration, env)
       IN /\ trace' = trace \o r.log
          /\ IF r.out.kind = "raise"
               THEN pc' = "done" /\ outcome' = r.out
               ELSE pc' = "stt_wait" /\ UNCHANGED outcome
  /\ prims' = Append(prims, "swipe")
  /\ UNCHANGED <<call, now, start_time, iter, globals>>

SttWait ==
  /\ pc = "stt_wait"
  /\ trace' = Append(trace, Sleep(ScrollSettle))
  /\ now' = now + ScrollSettle
  /\ iter' = iter + 1
  /\ pc' = "stt_loop"
  /\ UNCHANGED <<call, outcome, prims, start_time, globals>>

CallTypeAndEnter ==
  /\ pc = "idle"
  /\ \E text \in Strs : call' = [name |-> "type_and_enter", text |-> text]
  /\ pc' = "tae_input"
  /\ UNCHANGED <<outcome, trace, prims, now, start_time, iter, globals>>

\* (a slip: type_and_enter stops when input_text is answered success:false)
TaeInput_checked ==
  /\ pc = "tae_input"
  /\ \E env \in PollEnvs :
       LET r == input_text(call.text, env)
       IN /\ trace' = trace \o r.log
          /\ IF r.out.kind = "raise" \/ ~Truthy(r.out.value, "success")
               THEN pc' = "done" /\ outcome' = r.out
               ELSE pc' = "tae_wait" /\ UNCHANGED outcome
  /\ prims' = Append(prims, "input_text")
  /\ UNCHANGED <<call, now, start_time, iter, globals>>

TaeInput ==
  /\ pc = "tae_input"
  /\ \E env \in PollEnvs :
       LET r == input_text(call.text, env)
       IN /\ trace' = trace \o r.log
          /\ IF r.out.kind = "raise"
               THEN pc' = "done" /\ outcome' = r.out
               ELSE pc' = "tae_wait" /\ UNCHANGED outcome
  /\ prims' = Append(prims, "input_text")
  /\ UNCHANGED <<call, now, start_time, iter, globals>>

TaeWait ==
  /\ pc = "tae_wait"
  /\ trace' = Append(trace, Sleep(TypeSettle))
  /\ now' = now + TypeSettle
  /\ pc' = "tae_tap"
  /\ UNCHANGED <<call, outcome, prims, start_time, iter, globals>>

TaeTap ==
  /\ pc = "tae_tap"
  /\ \E env \in PollEnvs :
       LET r == tap_element(<<"\n">>, <<>>, <<>>, <<>>, 0, env)
       IN /\ trace' = trace \o r.log
          /\ outcome' = r.out
  /\ pc' = "done"
  /\ prims' = Append(prims, "tap_element")
  /\ UNCHANGED <<call, now, start_time, iter, globals>>

\* the caller has its result; the client holds nothing of the finished call
\* (a run of the command line is a process, whose globals end with it)
Finish ==
  /\ pc = "done"
  /\ pc' = "idle"
  /\ call' = NoCall
  /\ outcome' = NoOutcome
  /\ trace' = <<>>
  /\ prims' = <<>>
  /\ now' \in ClockStarts
  /\ start_time' = 0
  /\ iter' = 0
  /\ IF call.name = "cli"
       THEN _default_bridge' = <<>> /\ instances' = <<>> /\ bridge_calls' = <<>>
       ELSE UNCHANGED globals

Next ==
  \/ CallIsReady
  \/ CallPrimitive
  \/ CallGetElements
  \/ CallWaitForElement \/ WfeGuard \/ WfeFind \/ WfeSleep
  \/ CallScrollToText \/ SttLoop \/ SttFind \/ SttSwipe \/ SttWait
  \/ CallTypeAndEnter \/ TaeInput \/ TaeWait \/ TaeTap
  \/ Finish

Spec == Init /\ [][Next]_vars

\* a call that has begun keeps running: the client is one thread of blocking
\* statements, each of which ends (an exchange by its timeout, a sleep by
\* its duration)
Step ==
  \/ WfeGuard \/ WfeFind \/ WfeSleep
  \/ SttLoop \/ SttFind \/ SttSwipe \/ SttWait
  \/ TaeInput \/ TaeWait \/ TaeTap

\* wait_for_element alone, for what is claimed of its termination
NextWait ==
  \/ CallWaitForElement \/ WfeGuard \/ WfeFind \/ WfeSleep
  \/ Finish

\* get_bridge and a client operation, for what is claimed of the default instance
NextBridge == GetBridge \/ CallIsReady \/ Finish

BridgeSpec == Init /\ [][NextBridge]_vars

FairSpec == Init /\ [][NextWait]_vars /\ WF_vars(Step)

(***************************************************************************)
(* Reading the log of the call in progress.                                *)
(***************************************************************************)
IsExchange(e) == e.ev = "exchange"

IsSleep(e) == e.ev = "sleep"

IsCmd(e, action) ==
  IsExchange(e) /\ e.req.path = "/cmd" /\ <<"action", action>> \in e.req.body

\* the exchange failed at the transport: nothing reached, or a damaged body
Failed(e) == IsExchange(e) /\ (e.got.kind = "URLError" \/ ~e.got.utf8 \/ ~e.got.json)

Answered(e) == IsExchange(e) /\ ~Failed(e)

\* the dispatcher's answer arrived and says success:true
Succeeded(e) == Answered(e) /\ <<"success", TRUE>> \in e.got.members

CmdIdx(action) == {i \in DOMAIN trace : IsCmd(trace[i], action)}

ExchangeIdx == {i \in DOMAIN trace : IsExchange(trace[i])}

SleepIdx == {i \in DOMAIN trace : IsSleep(trace[i])}

Before(S, i) == {j \in S : j < i}

InCall(name) == call.name = name

Done(name) == pc = "done" /\ call.name = name

(***************************************************************************)
(* C1: scroll_to_text(text, max_swipes), whatever the dispatcher answers:  *)
(* at most max_swipes find_element commands are issued; a find_element     *)
(* that reports success:true is the k-th one for some k <= max_swipes, is  *)
(* the first to do so, has exactly k-1 swipes before it and nothing after  *)
(* it, and ends the call with true; the call returns true only so; and     *)
(* when max_swipes find_element commands were answered, none with          *)
(* success:true, and the call is over, it returned false (a transport      *)
(* failure, which is no answer of the dispatcher, ends the call otherwise).*)
(***************************************************************************)
C1_ScrollToText ==
  InCall("scroll_to_text") =>
    LET finds == CmdIdx("find_element")
        swipes == CmdIdx("swipe")
        hits == {i \in finds : Succeeded(trace[i])}
    IN /\ Cardinality(finds) <= call.max_swipes
       /\ \A i \in hits :
            /\ i = Len(trace)
            /\ pc = "done" /\ outcome = Return(TRUE)
            /\ Before(hits, i) = {}
            /\ Cardinality(Before(swipes, i)) = Cardinality(finds) - 1
       /\ outcome = Return(TRUE) => hits # {}
       /\ ( /\ pc = "done"
            /\ Cardinality(finds) = call.max_swipes
            /\ hits = {}
            /\ \A i \in ExchangeIdx : Answered(trace[i]) )
          => outcome = Return(FALSE)
       /\ outcome = Return(FALSE) =>
            hits = {} /\ Cardinality(finds) = call.max_swipes

\* scroll_to_text found the text at its second find_element, after one swipe
C1_Witness ==
  /\ Done("scroll_to_text")
  /\ outcome = Return(TRUE)
  /\ Cardinality(CmdIdx("find_element")) = 2
  /\ Cardinality(CmdIdx("swipe")) = 1
  /\ Succeeded(trace[Len(trace)])

(***************************************************************************)
(* C2: wait_for_element: a find_element of the loop that reports           *)
(* success:true is the last thing the call does (no find_element and no    *)
(* sleep follows it) and the call then returns true; and the call returns  *)
(* true only if a find_element of this call reported success:true.         *)
(***************************************************************************)
C2_WaitFound ==
  InCall("wait_for_element") =>
    LET hits == {i \in CmdIdx("find_element") : Succeeded(trace[i])}
    IN /\ \A i \in hits :
            /\ i = Len(trace)
            /\ pc = "done" /\ outcome = Return(TRUE)
       /\ outcome = Return(TRUE) => hits # {}

\* wait_for_element found the element at its second poll, after one sleep
C2_Witness ==
  /\ Done("wait_for_element")
  /\ outcome = Return(TRUE)
  /\ Cardinality(CmdIdx("find_element")) = 2
  /\ Cardinality(SleepIdx) = 1
  /\ Succeeded(trace[Len(trace)])

(***************************************************************************)
(* C3: wait_for_element: a call in progress ends, and when every           *)
(* find_element it issued was answered without success:true (and no        *)
(* exchange failed) it ends returning false; and whenever it has returned  *)
(* false, the time elapsed since the call began is at least the timeout.   *)
(***************************************************************************)
C3_WaitTimesOut ==
  /\ []( (InCall("wait_for_element") /\ pc # "done")
           => <>( /\ Done("wait_for_element")
                  /\ (\A i \in ExchangeIdx : Answered(trace[i]) /\ ~Succeeded(trace[i]))
                       => outcome = Return(FALSE) ) )
  /\ []( (InCall("wait_for_element") /\ outcome = Return(FALSE))
           => now - start_time >= call.timeout )

\* wait_for_element timed out after two polls that found nothing
C3_Witness ==
  /\ Done("wait_for_element")
  /\ outcome = Return(FALSE)
  /\ call.timeout > 0
  /\ Cardinality(CmdIdx("find_element")) = 2
  /\ \A i \in ExchangeIdx : Answered(trace[i]) /\ ~Succeeded(trace[i])
  /\ now - start_time >= call.timeout

(***************************************************************************)
(* C4: in wait_for_element and scroll_to_text, an exchange that fails at   *)
(* the transport (a find_element, or the swipe of scroll_to_text) is the   *)
(* last thing the call does: no command and no sleep follows it, and the   *)
(* call ends by raising, returning neither true nor false.                 *)
(***************************************************************************)
C4_FailurePropagates ==
  (InCall("wait_for_element") \/ InCall("scroll_to_text")) =>
    \A i \in ExchangeIdx :
      Failed(trace[i]) =>
        /\ i = Len(trace)
        /\ pc = "done"
        /\ outcome.kind = "raise"

\* scroll_to_text ended by the failure of its swipe
C4_Witness ==
  /\ Done("scroll_to_text")
  /\ Len(trace) = 2
  /\ IsCmd(trace[1], "find_element") /\ Answered(trace[1])
  /\ IsCmd(trace[2], "swipe") /\ Failed(trace[2])
  /\ outcome.kind = "raise"

RECURSIVE PathsOf(_), NodeAt(_, _)

PathsOf(t) ==
  {<<>>} \cup UNION {{<<i>> \o p : p \in PathsOf(t.children[i])} : i \in DOMAIN t.children}

NodeAt(t, path) == IF path = <<>> THEN t ELSE NodeAt(t.children[Head(path)], Tail(path))

IsActionable(n) == n.clickable \/ n.scrollable

PreOrderBefore(p, q) ==
  /\ p # q
  /\ \/ Len(p) < Len(q) /\ SubSeq(q, 1, Len(p)) = p
     \/ \E k \in 1..Len(p) :
          /\ k <= Len(q)
          /\ SubSeq(p, 1, k - 1) = SubSeq(q, 1, k - 1)
          /\ p[k] < q[k]

IsNullOrEmpty(t) == t = None \/ DOMAIN t = {}

\* a tree whose nodes carry their own path as text
IsLabelled(t) == ~IsNullOrEmpty(t) /\ "text" \in DOMAIN t /\ t.text = <<>>

IsFlatteningOf(out, t) ==
  IF IsNullOrEmpty(t) THEN out = <<>>
  ELSE /\ \A i \in DOMAIN out :
            /\ out[i].text \in PathsOf(t)
            /\ IsActionable(NodeAt(t, out[i].text))
            /\ out[i].clickable = NodeAt(t, out[i].text).clickable
            /\ out[i].scrollable = NodeAt(t, out[i].text).scrollable
       /\ \A p \in PathsOf(t) :
            IsActionable(NodeAt(t, p))
              => Cardinality({i \in DOMAIN out : out[i].text = p}) = 1
       /\ \A i, j \in DOMAIN out : i < j => PreOrderBefore(out[i].text, out[j].text)

\* the dump answer of a finished get_elements call, and the tree it carries
DumpAnswer == trace[1].env.server.answer

DumpTree ==
  IF "data" \notin DOMAIN DumpAnswer THEN None
  ELSE IF IsStr(DumpAnswer.data) THEN DumpAnswer.data.jsontext
  ELSE DumpAnswer.data

DumpAnswered ==
  /\ Done("get_elements")
  /\ Answered(trace[1])
  /\ trace[1].env.server.kind = "other"

(***************************************************************************)
(* C6: flattening a tree (a null or an empty root included) lists, in      *)
(* pre-order, exactly its clickable-or-scrollable nodes, each once, those  *)
(* under a non-actionable node too; a null or empty root gives the empty   *)
(* sequence.                                                               *)
(***************************************************************************)
C6_Flattening ==
  (DumpAnswered /\ Truthy(DumpAnswer, "success")
     /\ (IsNullOrEmpty(DumpTree) \/ IsLabelled(DumpTree)))
    => /\ outcome.kind = "return"
       /\ IsFlatteningOf(outcome.value, DumpTree)

\* the tree A(B clickable, C(D scrollable)) flattened to B, D
C6_Witness ==
  /\ DumpAnswered /\ Truthy(DumpAnswer, "success")
  /\ IsLabelled(DumpTree)
  /\ PathsOf(DumpTree) = {<<>>, <<1>>, <<2>>, <<2, 1>>}
  /\ ~IsActionable(DumpTree) /\ ~IsActionable(NodeAt(DumpTree, <<2>>))
  /\ Len(outcome.value) = 2
  /\ outcome.value[1].text = <<1>>
  /\ outcome.value[2].text = <<2, 1>>

(***************************************************************************)
(* C7: get_elements issues exactly one command, a dump; when the answer's  *)
(* success is false or absent it returns the empty sequence, raising       *)
(* nothing and flattening nothing the answer carries; when success is true *)
(* it returns the flattening of the answer's data.                         *)
(***************************************************************************)
C7_GetElements ==
  Done("get_elements") =>
    /\ Len(trace) = 1
    /\ IsCmd(trace[1], "dump")
    /\ (Answered(trace[1]) /\ ~Succeeded(trace[1])) => outcome = Return(<<>>)
    /\ (DumpAnswered /\ Truthy(DumpAnswer, "success")
          /\ (IsNullOrEmpty(DumpTree) \/ IsLabelled(DumpTree)))
         => outcome.kind = "return" /\ IsFlatteningOf(outcome.value, DumpTree)

\* a dump answered success:false with an actionable node in its data: nothing listed
C7_Witness ==
  /\ DumpAnswered
  /\ "success" \in DOMAIN DumpAnswer /\ ~DumpAnswer.success
  /\ IsLabelled(DumpTree) /\ IsActionable(DumpTree)
  /\ outcome = Return(<<>>)

(***************************************************************************)
(* The fixed vocabulary of actions, and the calls that are one primitive.  *)
(***************************************************************************)
Vocabulary ==
  {"tap", "swipe", "long_press", "tap_element", "input_text", "back", "home", "recent",
   "notifications", "quick_settings", "find_element", "scroll_forward", "scroll_backward",
   "start_app", "dump"}

PrimCallNames == {c.name : c \in PrimCalls}

UnknownCommandSent ==
  /\ Done("_send_command")
  /\ call.action \notin Vocabulary

MockAnswered(e) == Answered(e) /\ e.env.server.kind = "mock"

(***************************************************************************)
(* C8 as stated: an action outside the vocabulary is sent unvalidated and  *)
(* the mock dispatcher answers success:false with the error text           *)
(* "unknown command: " followed by the action name.                        *)
(***************************************************************************)
C8_AsStated ==
  UnknownCommandSent =>
    /\ Len(trace) = 1 /\ IsCmd(trace[1], call.action)
    /\ MockAnswered(trace[1]) =>
         trace[1].got.members =
           { <<"success", FALSE>>,
             <<"error", FString(<< <<117, 110, 107, 110, 111, 119, 110, 32, 99, 111, 109,
                                     109, 97, 110, 100, 58, 32>>, <<>> >>,
                                <<call.action>>)>> }

(***************************************************************************)
(* C8 amended: an action outside the vocabulary is sent unvalidated (one   *)
(* exchange, carrying that action) and the mock dispatcher answers         *)
(* success:false with the error text U+672A U+77E5 U+547D U+4EE4 ": "      *)
(* (the mock's own words for "unknown command") followed by the action     *)
(* name, and nothing else; the client returns that answer.                 *)
(***************************************************************************)
C8_UnknownCommand ==
  UnknownCommandSent =>
    /\ Len(trace) = 1 /\ IsCmd(trace[1], call.action)
    /\ MockAnswered(trace[1]) =>
         /\ trace[1].got.members =
              { <<"success", FALSE>>,
                <<"error", FString(<< <<26410, 30693, 21629, 20196, 58, 32>>, <<>> >>,
                                   <<call.action>>)>> }
         /\ outcome.kind = "return"
         /\ DOMAIN outcome.value = {"success", "error"}
         /\ ~outcome.value.success

\* the action "fly" went out to the mock dispatcher and came back refused
C8_Witness ==
  /\ UnknownCommandSent
  /\ call.action = "fly"
  /\ MockAnswered(trace[1])
  /\ outcome.kind = "return" /\ ~outcome.value.success

(***************************************************************************)
(* C9: the exchanges performed are as many as the primitive operations     *)
(* invoked, and a call of a primitive operation performs exactly one,      *)
(* whether it was answered success:true, success:false or failed at the    *)
(* transport.                                                              *)
(***************************************************************************)
C9_OneExchange ==
  /\ Cardinality(ExchangeIdx) = Len(prims)
  /\ (pc = "done" /\ call.name \in PrimCallNames) =>
       (Len(trace) = 1 /\ IsExchange(trace[1]))

\* a tap that could not reach the endpoint: one exchange, not two
C9_Witness ==
  /\ Done("tap")
  /\ Len(trace) = 1 /\ Failed(trace[1]) /\ ~trace[1].env.reach
  /\ outcome.kind = "raise"

(***************************************************************************)
(* C10: a primitive operation whose exchange was answered returns the      *)
(* dispatcher's response mapping itself: the same keys with the same       *)
(* values, success:false included, which is returned and not raised.       *)
(***************************************************************************)
C10_RoundTrip ==
  (pc = "done" /\ call.name \in PrimCallNames /\ Answered(trace[1])) =>
    /\ outcome.kind = "return"
    /\ {<<k, outcome.value[k]>> : k \in DOMAIN outcome.value} = trace[1].got.members
    /\ trace[1].env.server.kind = "other" => outcome.value = trace[1].env.server.answer

\* find_element answered success:false with an error text, returned as it is
C10_Witness ==
  /\ Done("find_element")
  /\ Answered(trace[1])
  /\ outcome.kind = "return"
  /\ DOMAIN outcome.value = {"success", "error"}
  /\ ~outcome.value.success
  /\ outcome.value = trace[1].env.server.answer

(***************************************************************************)
(* The command an exchange carried.                                        *)
(***************************************************************************)
SentParams(e) == CHOOSE v \in {p[2] : p \in {q \in e.req.body : q[1] = "params"}} : TRUE

SentAction(e) == CHOOSE v \in {p[2] : p \in {q \in e.req.body : q[1] = "action"}} : TRUE

\* the optional match criteria an operation accepts: argument name and wire key
Criteria(name) ==
  IF name \in {"find_element", "tap_element"}
    THEN {<<"text", "text">>, <<"resource_id", "resourceId">>, <<"desc", "desc">>,
          <<"class_name", "className">>}
    ELSE {<<"text", "text">>, <<"resource_id", "resourceId">>}

MatchOps == {"find_element", "tap_element", "scroll_forward", "scroll_backward"}

\* the caller supplied a non-empty value for the argument
Supplied(c, arg) == c[arg] # <<>> /\ c[arg][1] # ""

(***************************************************************************)
(* C11: for find_element, tap_element, scroll_forward and scroll_backward  *)
(* the params mapping sent holds the key of an optional criterion if and   *)
(* only if the caller supplied a non-empty value for it, and then with     *)
(* that value; it holds no other key, except that tap_element always       *)
(* carries index, with the caller's value.                                 *)
(***************************************************************************)
C11_OmittedKeys ==
  (pc = "done" /\ call.name \in MatchOps) =>
    LET params == SentParams(trace[1])
        given == {cr \in Criteria(call.name) : Supplied(call, cr[1])}
        extra == IF call.name = "tap_element" THEN {"index"} ELSE {}
    IN /\ Len(trace) = 1 /\ SentAction(trace[1]) = call.name
       /\ DOMAIN params = {cr[2] : cr \in given} \cup extra
       /\ \A cr \in given : params[cr[2]] = call[cr[1]][1]
       /\ call.name = "tap_element" => params["index"] = call.index

\* tap_element with an empty text, a resource id and index 1: resourceId and index go out
C11_Witness ==
  /\ Done("tap_element")
  /\ call.text = <<"">> /\ call.resource_id = <<"OK">>
  /\ call.desc = <<>> /\ call.class_name = <<>> /\ call.index = 1
  /\ DOMAIN SentParams(trace[1]) = {"resourceId", "index"}
  /\ SentParams(trace[1])["resourceId"] = "OK"

\* the swipe command of a preset: fixed coordinates and the duration d
PresetParams(name, d) ==
  CASE name = "swipe_up" ->
         [startX |-> 540, startY |-> 1500, endX |-> 540, endY |-> 500, duration |-> d]
    [] name = "swipe_down" ->
         [startX |-> 540, startY |-> 500, endX |-> 540, endY |-> 1500, duration |-> d]
    [] name = "swipe_left" ->
         [startX |-> 900, startY |-> 960, endX |-> 180, endY |-> 960, duration |-> d]
    [] name = "swipe_right" ->
         [startX |-> 180, startY |-> 960, endX |-> 900, endY |-> 960, duration |-> d]

Presets == {"swipe_up", "swipe_down", "swipe_left", "swipe_right"}

(***************************************************************************)
(* C12: each directional preset issues exactly one command, a swipe with   *)
(* the preset's fixed coordinates and the caller's duration; and the       *)
(* swipe_up() that scroll_to_text calls without a duration sends the       *)
(* swipe_up coordinates with duration 300.                                 *)
(***************************************************************************)
C12_Presets ==
  /\ (pc = "done" /\ call.name \in Presets) =>
       /\ Len(trace) = 1 /\ IsCmd(trace[1], "swipe")
       /\ trace[1].req.method = "POST"
       /\ SentParams(trace[1]) = PresetParams(call.name, call.duration)
  /\ InCall("scroll_to_text") =>
       \A i \in CmdIdx("swipe") : SentParams(trace[i]) = PresetParams("swipe_up", 300)

\* swipe_down(100) has sent its swipe, from y = 500 to y = 1500
C12_Witness ==
  /\ Done("swipe_down")
  /\ call.duration = 100
  /\ IsCmd(trace[1], "swipe")
  /\ SentParams(trace[1]).startY = 500 /\ SentParams(trace[1]).endY = 1500
  /\ SentParams(trace[1]).duration = 100

(***************************************************************************)
(* C13: type_and_enter(text) issues input_text{text} first; when that      *)
(* exchange fails at the transport the call ends there, raising, and no    *)
(* second command is issued; otherwise, whether the answer said            *)
(* success:true or success:false, the settle delay follows and then        *)
(* tap_element with text a newline and index 0, nothing more; the call     *)
(* returns the response of that second command and nothing of the first.   *)
(***************************************************************************)
C13_TypeAndEnter ==
  InCall("type_and_enter") =>
    /\ Len(trace) <= 3
    /\ Len(trace) >= 1 =>
         /\ IsCmd(trace[1], "input_text")
         /\ SentParams(trace[1]) = [text |-> call.text]
         /\ Failed(trace[1]) =>
              (Len(trace) = 1 /\ pc = "done" /\ outcome.kind = "raise")
    /\ Len(trace) >= 2 => trace[2] = Sleep(TypeSettle)
    /\ Len(trace) = 3 =>
         /\ IsCmd(trace[3], "tap_element")
         /\ SentParams(trace[3]) = [index |-> 0, text |-> "\n"]
         /\ pc = "done"
         /\ IF Answered(trace[3])
              THEN /\ outcome.kind = "return"
                   /\ JsonDumps(outcome.value) = trace[3].got.members
              ELSE outcome.kind = "raise"
    /\ (pc = "done" /\ Answered(trace[1])) => Len(trace) = 3

\* input_text was refused (success:false), the newline tap was still sent and
\* its success:true answer is what the call returned
C13_Witness ==
  /\ Done("type_and_enter")
  /\ Len(trace) = 3
  /\ Answered(trace[1]) /\ <<"success", FALSE>> \in trace[1].got.members
  /\ Succeeded(trace[3])
  /\ outcome.kind = "return" /\ outcome.value.success

(***************************************************************************)
(* bridge.py: the command-line interface.  sys.argv is a sequence of       *)
(* strings, sys.argv[k] being argv[k + 1].                                 *)
(***************************************************************************)
\* the process ends with the exit status, having printed this
Exit(code, printed) == [kind |-> "exit", status |-> code, printed |-> printed]

\* print_help()
PrintHelp == [what |-> "usage"]

\* the decimal strings among the arguments tried, with their values
IntLiterals == ("0" :> 0) @@ ("540" :> 540) @@ ("960" :> 960) @@ ("-5" :> (0 - 5))

\* int(s): the value of a decimal string, ValueError otherwise
int(s) ==
  IF s \in DOMAIN IntLiterals THEN Return(IntLiterals[s]) ELSE Raise("ValueError", s)

\* " ".join(words), for the words tried
Join(words) ==
  CASE Len(words) = 1 -> words[1]
    [] words = <<"", "">> -> " "
    [] words = <<"", "OK">> -> " OK"
    [] words = <<"OK", "">> -> "OK "
    [] words = <<"OK", "OK">> -> "OK OK"

\* the first of the conversions that raises, if any
FirstRaise(rs) ==
  IF \E i \in DOMAIN rs : rs[i].kind = "raise"
    THEN <<rs[CHOOSE i \in DOMAIN rs :
                /\ rs[i].kind = "raise"
                /\ \A j \in 1..(i - 1) : rs[j].kind # "raise"]>>
    ELSE <<>>

\* the try block's statement has run: print the result, or the except clause,
\* or an exception nothing catches (traceback, exit status 1)
CliEnd(r) ==
  [out |-> IF r.out.kind = "return"
             THEN Exit(0, [what |-> "result", value |-> r.out.value])
           ELSE IF r.out.exc = "BridgeError"
             THEN Exit(1, [what |-> "error", cause |-> r.out.cause])
           ELSE Exit(1, [what |-> "traceback", exc |-> r.out.exc]),
   log |-> r.log]

\* a conversion of the arguments raised before any call of the client
CliRaised(e) == CliEnd([out |-> e, log |-> <<>>])

CliHelp == [out |-> Exit(0, PrintHelp), log |-> <<>>]

CliTap(argv, env) ==
  LET xs == <<int(argv[3]), int(argv[4])>>
  IN IF FirstRaise(xs) # <<>> THEN CliRaised(FirstRaise(xs)[1])
     ELSE CliEnd(tap(xs[1].value, xs[2].value, env))

CliSwipe(argv, env) ==
  LET xs == <<int(argv[3]), int(argv[4]), int(argv[5]), int(argv[6])>>
             \o (IF Len(argv) > 7 THEN <<int(argv[8])>> ELSE <<Return(300)>>)
  IN IF FirstRaise(xs) # <<>> THEN CliRaised(FirstRaise(xs)[1])
     ELSE CliEnd(swipe(xs[1].value, xs[2].value, xs[3].value, xs[4].value,
                       xs[5].value, env))

Cli(argv, env) ==
  IF Len(argv) < 2 THEN CliHelp
  ELSE LET cmd == argv[2]
           n == Len(argv)
       IN CASE cmd = "status" -> CliEnd(status(env))
            [] cmd = "ping" -> CliEnd(ping(env))
            [] cmd = "tap" /\ n >= 4 -> CliTap(argv, env)
            [] cmd = "swipe" /\ n >= 6 -> CliSwipe(argv, env)
            [] cmd = "input" /\ n >= 3 -> CliEnd(input_text(Join(SubSeq(argv, 3, n)), env))
            [] cmd = "back" -> CliEnd(back(env))
            [] cmd = "home" -> CliEnd(home(env))
            [] cmd = "find" /\ n >= 3 ->
                 CliEnd(find_element(<<Join(SubSeq(argv, 3, n))>>, <<>>, <<>>, <<>>, env))
            [] cmd = "dump" -> CliEnd(dump_hierarchy(env))
            [] OTHER -> CliHelp

\* the argument vectors tried
ArgsUpTo(words, n) == UNION {[1..k -> words] : k \in 0..n}

CliArgvs ==
  {<<"bridge.py">>}
    \cup {<<"bridge.py", c>> \o a :
            c \in {"status", "ping", "back", "home", "dump", "fly"}, a \in ArgsUpTo({"x"}, 1)}
    \cup {<<"bridge.py", "tap">> \o a : a \in ArgsUpTo({"540", "x"}, 3)}
    \cup {<<"bridge.py", "swipe">> \o a : a \in ArgsUpTo({"540", "x"}, 5)}
    \cup {<<"bridge.py", c>> \o a : c \in {"input", "find"}, a \in ArgsUpTo({"", "OK"}, 2)}

\* python bridge.py <argv>: one run of the program, from start to exit
CallCli ==
  /\ pc = "idle"
  /\ \E argv \in CliArgvs, env \in Envs :
       LET r == Cli(argv, env)
           b == get_bridge(DefaultHost, DefaultPort, _default_bridge, instances)
       IN /\ IF Len(argv) < 2
               THEN UNCHANGED globals
               ELSE /\ _default_bridge' = b.default
                    /\ instances' = b.objs
                    /\ bridge_calls' = Append(bridge_calls,
                                              [host |-> DefaultHost, port |-> DefaultPort,
                                               returned |-> b.ret])
          /\ outcome' = r.out
          /\ trace' = r.log
          /\ prims' = [i \in DOMAIN r.log |-> argv[2]]
          /\ call' = [name |-> "cli", argv |-> argv]
  /\ pc' = "done"
  /\ UNCHANGED <<now, start_time, iter>>

NextCli == CallCli \/ Finish

CliSpec == Init /\ [][NextCli]_vars

\* the arguments after the subcommand
CliArgs == SubSeq(call.argv, 3, Len(call.argv))

\* missing or malformed arguments, as the usage text has them
Malformed ==
  \/ Len(call.argv) < 2
  \/ /\ Len(call.argv) >= 2
     /\ LET cmd == call.argv[2]
        IN \/ cmd \notin {"status", "ping", "tap", "swipe", "input", "back", "home",
                          "find", "dump"}
           \/ cmd = "tap" /\ Len(CliArgs) < 2
           \/ cmd = "swipe" /\ Len(CliArgs) < 4
           \/ cmd \in {"input", "find"} /\ Len(CliArgs) < 1
           \/ /\ cmd = "tap"
              /\ \E i \in 1..2 : i <= Len(CliArgs) /\ CliArgs[i] \notin DOMAIN IntLiterals
           \/ /\ cmd = "swipe"
              /\ \E i \in 1..4 : i <= Len(CliArgs) /\ CliArgs[i] \notin DOMAIN IntLiterals

(***************************************************************************)
(* C14: a run of the command line with missing or malformed arguments      *)
(* prints the usage text and exits with status 0, performing no exchange;  *)
(* a run whose command fails at the transport prints an error and exits    *)
(* with status 1.                                                          *)
(***************************************************************************)
C14_Cli ==
  Done("cli") =>
    /\ Malformed => (outcome = Exit(0, PrintHelp) /\ trace = <<>>)
    /\ (\E i \in DOMAIN trace : Failed(trace[i])) =>
         /\ outcome.status = 1
         /\ outcome.printed.what \in {"error", "traceback"}

\* the time the last exchange of the call took
LastRtt == trace[CHOOSE i \in ExchangeIdx : \A j \in ExchangeIdx : j <= i].rtt

(***************************************************************************)
(* C15 as stated: whenever wait_for_element returns false, the time        *)
(* elapsed since the call began, round trips and sleeps included, exceeds  *)
(* the timeout by at most one interval.                                    *)
(***************************************************************************)
C15_AsStated ==
  (InCall("wait_for_element") /\ outcome = Return(FALSE))
    => now - start_time <= call.timeout + call.interval

(***************************************************************************)
(* C15 amended: whenever wait_for_element returns false, either no         *)
(* find_element was issued and no time has elapsed, or the time elapsed    *)
(* since the call began exceeds the timeout by less than one interval      *)
(* plus the round-trip time of the last find_element exchange.             *)
(***************************************************************************)
C15_Overshoot ==
  (InCall("wait_for_element") /\ outcome = Return(FALSE)) =>
    IF ExchangeIdx = {}
      THEN now = start_time /\ call.timeout <= 0
      ELSE /\ now - start_time >= call.timeout
           /\ now - start_time < call.timeout + call.interval + LastRtt

\* a timeout of 1 overshot by more than the interval: the one find_element took
\* 2 and the sleep 1
C15_Witness ==
  /\ Done("wait_for_element")
  /\ outcome = Return(FALSE)
  /\ call.timeout = 1 /\ call.interval = 1
  /\ Cardinality(ExchangeIdx) = 1 /\ LastRtt = 2
  /\ now - start_time = 3

\* the command the same call sends when the criterion arg is not supplied
CommandWithout(arg) == Invoke([call EXCEPT ![arg] = <<>>], trace[1].env).log[1].req

(***************************************************************************)
(* C16 as stated: for find_element, tap_element, scroll_forward and        *)
(* scroll_backward, a call that supplies an optional criterion as the      *)
(* empty string sends a command different from the one the same call       *)
(* sends with that criterion not supplied.                                 *)
(***************************************************************************)
C16_AsStated ==
  (pc = "done" /\ call.name \in MatchOps) =>
    \A cr \in Criteria(call.name) :
      call[cr[1]] = <<"">> => trace[1].req # CommandWithout(cr[1])

(***************************************************************************)
(* C16 amended: a call that supplies an optional criterion as the empty    *)
(* string sends the very command the same call sends with that criterion   *)
(* not supplied (the remote side cannot tell them apart); the command      *)
(* differs from it exactly when the criterion is a non-empty string.       *)
(***************************************************************************)
C16_EmptyIsAbsent ==
  (pc = "done" /\ call.name \in MatchOps) =>
    \A cr \in Criteria(call.name) :
      /\ call[cr[1]] = <<"">> => trace[1].req = CommandWithout(cr[1])
      /\ Supplied(call, cr[1]) => trace[1].req # CommandWithout(cr[1])

\* find_element(text="") has sent a command with empty params, as find_element() does
C16_Witness ==
  /\ Done("find_element")
  /\ call.text = <<"">> /\ call.resource_id = <<>>
  /\ call.desc = <<>> /\ call.class_name = <<>>
  /\ DOMAIN SentParams(trace[1]) = {}
  /\ trace[1].req = CommandWithout("text")

(***************************************************************************)
(* C17: scroll_to_text proceeds find_element, swipe (the swipe_up preset), *)
(* settle delay, in strict rotation starting with find_element; a call     *)
(* that returned false has issued exactly max_swipes find_element and      *)
(* exactly max_swipes swipe commands, the last command being a swipe when  *)
(* max_swipes >= 1; and when every find_element was answered without       *)
(* success:true and every swipe was answered, with success:true or not,    *)
(* the finished call returned false after the full budget.                 *)
(***************************************************************************)
C17_FullBudget ==
  InCall("scroll_to_text") =>
    /\ \A i \in DOMAIN trace :
         CASE i % 3 = 1 -> IsCmd(trace[i], "find_element")
           [] i % 3 = 2 -> IsCmd(trace[i], "swipe")
                             /\ SentParams(trace[i]) = PresetParams("swipe_up", 300)
           [] OTHER -> trace[i] = Sleep(ScrollSettle)
    /\ (pc = "done" /\ outcome = Return(FALSE)) =>
         /\ Len(trace) = 3 * call.max_swipes
         /\ Cardinality(CmdIdx("find_element")) = call.max_swipes
         /\ Cardinality(CmdIdx("swipe")) = call.max_swipes
         /\ call.max_swipes >= 1 =>
              \A i \in CmdIdx("find_element") : \E j \in CmdIdx("swipe") : j > i
    /\ ( /\ pc = "done"
         /\ \A i \in ExchangeIdx : Answered(trace[i])
         /\ \A i \in CmdIdx("find_element") : ~Succeeded(trace[i]) )
       => (outcome = Return(FALSE) /\ Len(trace) = 3 * call.max_swipes)

\* two rounds without a match, the first swipe refused (success:false) and the
\* second accepted: false after two finds and two swipes
C17_Witness ==
  /\ Done("scroll_to_text")
  /\ outcome = Return(FALSE)
  /\ call.max_swipes = 2
  /\ Len(trace) = 6
  /\ Answered(trace[2]) /\ ~Succeeded(trace[2])
  /\ Succeeded(trace[5])
  /\ IsCmd(trace[5], "swipe")

\* ceil(a / b) for b > 0, and 0 when a <= 0
Ceil(a, b) == IF a <= 0 THEN 0 ELSE (a + b - 1) \div b

AttemptBound == Ceil(call.timeout, call.interval)

\* find_element and sleep(interval) take turns, find_element first
FindsAndSleepsAlternate ==
  \A i \in DOMAIN trace :
    IF i % 2 = 1 THEN IsCmd(trace[i], "find_element")
    ELSE trace[i] = Sleep(call.interval)

(***************************************************************************)
(* C18 as stated: in wait_for_element consecutive find_element calls are   *)
(* separated by exactly one sleep of the interval, at most                 *)
(* ceil(timeout / interval) find_element calls are issued, none when the   *)
(* timeout is <= 0 (the call then returns false), and every attempt within *)
(* that bound is made unless an earlier one succeeded or failed at the     *)
(* transport, so that a dispatcher first succeeding on attempt N within    *)
(* the bound is reached: the call does not return false before it has      *)
(* made ceil(timeout / interval) attempts.                                 *)
(***************************************************************************)
C18_AsStated ==
  InCall("wait_for_element") =>
    /\ FindsAndSleepsAlternate
    /\ Cardinality(CmdIdx("find_element")) <= AttemptBound
    /\ outcome = Return(FALSE) => Cardinality(CmdIdx("find_element")) = AttemptBound

(***************************************************************************)
(* C18 amended: consecutive find_element calls are separated by exactly    *)
(* one sleep of the interval; at most ceil(timeout / interval) are issued, *)
(* none when the timeout is <= 0, the call then returning false; a         *)
(* find_element that is the first to succeed, being the N-th issued, ends  *)
(* the call with true after exactly N find_element calls; the call may     *)
(* return false before ceil(timeout / interval) attempts, the time of the  *)
(* exchanges counting against the timeout, and makes all of them when      *)
(* every exchange took no time.                                            *)
(***************************************************************************)
C18_AttemptBound ==
  InCall("wait_for_element") =>
    LET finds == CmdIdx("find_element")
    IN /\ FindsAndSleepsAlternate
       /\ Cardinality(finds) <= AttemptBound
       /\ (call.timeout <= 0 /\ pc = "done") => (trace = <<>> /\ outcome = Return(FALSE))
       /\ \A i \in finds :
            Succeeded(trace[i]) =>
              /\ pc = "done" /\ outcome = Return(TRUE)
              /\ Cardinality(finds) = (i + 1) \div 2
              /\ \A j \in Before(finds, i) : ~Succeeded(trace[j])
       /\ (outcome = Return(FALSE) /\ \A i \in finds : trace[i].rtt = 0)
            => Cardinality(finds) = AttemptBound

\* timeout 3, interval 1: the third find_element, the last the bound allows, is
\* the first to succeed and the call returns true
C18_Witness ==
  /\ Done("wait_for_element")
  /\ call.timeout = 3 /\ call.interval = 1
  /\ outcome = Return(TRUE)
  /\ Cardinality(CmdIdx("find_element")) = 3
  /\ AttemptBound = 3
  /\ Succeeded(trace[Len(trace)])

(***************************************************************************)
(* C19: over any sequence of get_bridge(host, port) calls in one process   *)
(* a client is constructed only by the first, every call returns that      *)
(* same object, its base address is made of the host and port of the       *)
(* first call and its timeout is the default, whatever the later calls     *)
(* were given, and no client operation in between changes them.            *)
(***************************************************************************)
C19_DefaultInstance ==
  IF bridge_calls = <<>>
    THEN _default_bridge = <<>> /\ instances = <<>>
    ELSE LET first == bridge_calls[1]
         IN /\ Len(instances) = 1
            /\ _default_bridge = <<first.returned>>
            /\ \A i \in DOMAIN bridge_calls : bridge_calls[i].returned = first.returned
            /\ instances[first.returned] =
                 [base_url |-> FString(<< <<104, 116, 116, 112, 58, 47, 47>>, <<58>>, <<>> >>,
                                       <<first.host, first.port>>),
                  timeout |-> 10]

\* two get_bridge calls, the second given another host and port, then a client
\* operation: the second call returned the object of the first, with its address
C19_Witness ==
  /\ Len(bridge_calls) = 2
  /\ bridge_calls[1].host = "127.0.0.1" /\ bridge_calls[1].port = 8080
  /\ bridge_calls[2].host = "10.0.0.2" /\ bridge_calls[2].port = 9090
  /\ bridge_calls[2].returned = bridge_calls[1].returned
  /\ Done("is_ready")
  /\ instances[bridge_calls[2].returned].base_url.args = <<"127.0.0.1", 8080>>

(***************************************************************************)
(* C20: the mock dispatcher answers a /cmd request with success:false if   *)
(* and only if its action is not one of the 15 actions of the vocabulary,  *)
(* and with success:true for every action of the vocabulary; the answer    *)
(* is the one mock_execute gives for the action and params of the request  *)
(* alone, whatever was requested before.                                   *)
(***************************************************************************)
C20_MockVocabulary ==
  \A i \in ExchangeIdx :
    (MockAnswered(trace[i]) /\ trace[i].req.path = "/cmd") =>
      LET action == SentAction(trace[i])
          members == trace[i].got.members
      IN /\ <<"success", FALSE>> \in members <=> action \notin Vocabulary
         /\ <<"success", TRUE>> \in members <=> action \in Vocabulary
         /\ members = JsonDumps(mock_execute(action, SentParams(trace[i])))

====
